---- MODULE Spec2Model ----
(***************************************************************************)
(* Model of metadata_cleaning/_dtypes_utils.py: the four functions         *)
(*   get_dtypes_and_unks   (scan)                                          *)
(*   get_certainly_NaNs    (confirm)                                       *)
(*   get_dtypes_final      (finalize)                                      *)
(*   rectify_dtypes_in_md  (rewrite)                                       *)
(* run in that order on one metadata table.                                *)
(*                                                                         *)
(* A Python scalar is a record [kind, s]: kind is "float" (a native float, *)
(* numpy.nan included) or "str"; s is str(V) as a sequence of characters.  *)
(* A table is [columns |-> sequence of names, data |-> name -> sequence of *)
(* scalars]. A dict is a function; its iteration order is the insertion    *)
(* order, which for every dict here is the table's column order or the     *)
(* sorted order of the keys.                                               *)
(***************************************************************************)
EXTENDS Integers, Sequences, FiniteSets, TLC

VARIABLES pc, err, md_in, md_pd, regex_unk, sampleID_cols, dtypes,
          potential_unks, nan_diversity, thresh, certainly_NaNs, to_nan,
          dtypes_final

vars == <<pc, err, md_in, md_pd, regex_unk, sampleID_cols, dtypes,
          potential_unks, nan_diversity, thresh, certainly_NaNs, to_nan,
          dtypes_final>>

(***************************************************************************)
(* Characters and strings                                                  *)
(***************************************************************************)

\* The characters used, in code point order (what sorted() and str.lower() see).
Ascii ==
  <<" ", "+", "-", ".", "/",
    "0", "1", "2", "3", "4", "5", "6", "7", "8", "9", ":",
    "A", "B", "C", "D", "E", "F", "G", "H", "I", "J", "K", "L", "M",
    "N", "O", "P", "Q", "R", "S", "T", "U", "V", "W", "X", "Y", "Z", "_",
    "a", "b", "c", "d", "e", "f", "g", "h", "i", "j", "k", "l", "m",
    "n", "o", "p", "q", "r", "s", "t", "u", "v", "w", "x", "y", "z">>

\* ord(c), as a table
OrdOf == [c \in {Ascii[i] : i \in 1..Len(Ascii)} |->
            CHOOSE i \in 1..Len(Ascii) : Ascii[i] = c]

Ord(c) == OrdOf[c]

IsUpper(c) == Ord(c) >= Ord("A") /\ Ord(c) <= Ord("Z")

\* one character of str.lower(), as a table
LowerOf == [c \in DOMAIN OrdOf |->
              IF IsUpper(c) THEN Ascii[Ord("a") + (Ord(c) - Ord("A"))] ELSE c]

LowerChar(c) == LowerOf[c]

\* str.lower()
Lower(s) == [i \in 1..Len(s) |-> LowerChar(s[i])]

\* x.isdigit()
IsDigit(c) == c \in {"0", "1", "2", "3", "4", "5", "6", "7", "8", "9"}

\* sub in s
Contains(s, sub) ==
  \E i \in 0..(Len(s) - Len(sub)) : SubSeq(s, i + 1, i + Len(sub)) = sub

\* Python's string comparison, as sorted() uses it
StrLess(a, b) ==
  \E k \in 1..(Len(b)) :
     /\ k <= Len(a) + 1
     /\ \A j \in 1..(k - 1) : a[j] = b[j]
     /\ \/ k = Len(a) + 1
        \/ (k <= Len(a) /\ Ord(a[k]) < Ord(b[k]))

\* sorted(S) for a set of strings
RECURSIVE Sorted(_)
Sorted(S) ==
  IF S = {} THEN <<>>
  ELSE LET m == CHOOSE x \in S : \A y \in S \ {x} : StrLess(x, y)
       IN <<m>> \o Sorted(S \ {m})

(***************************************************************************)
(* Python scalars                                                          *)
(***************************************************************************)

StrV(s) == [kind |-> "str", s |-> s]
FloatV(s) == [kind |-> "float", s |-> s]

\* numpy.nan
NaN == FloatV(<<"n", "a", "n">>)

\* str(V)
Str(V) == V.s

\* the text after an optional sign
Unsigned(s) == IF Len(s) > 0 /\ s[1] \in {"+", "-"} THEN Tail(s) ELSE s

\* digits with at most one '.', at least one digit
IsDecimal(s) ==
  /\ \E i \in 1..Len(s) : IsDigit(s[i])
  /\ \A i \in 1..Len(s) : IsDigit(s[i]) \/ s[i] = "."
  /\ Cardinality({i \in 1..Len(s) : s[i] = "."}) <= 1

\* the literals float() accepts, for the plain forms used here: an optional
\* sign, then a decimal number or nan / inf / infinity in any case
IsFloatLiteral(s) ==
  LET u == Lower(Unsigned(s))
  IN \/ IsDecimal(u)
     \/ u \in {<<"n", "a", "n">>, <<"i", "n", "f">>,
               <<"i", "n", "f", "i", "n", "i", "t", "y">>}

\* whether float(V) returns (it raises ValueError otherwise)
FloatOK(V) == V.kind = "float" \/ IsFloatLiteral(V.s)

\* float(V), by its repr
ToFloat(V) ==
  IF V.kind = "float" THEN V
  ELSE LET u == Lower(Unsigned(V.s))
           neg == Len(V.s) > 0 /\ V.s[1] = "-"
           body == IF u = <<"n", "a", "n">> THEN u
                   ELSE IF ~IsDecimal(u) THEN <<"i", "n", "f">>
                   ELSE IF \E i \in 1..Len(u) : u[i] = "." THEN u
                   ELSE u \o <<".", "0">>
       IN FloatV(IF neg /\ u # <<"n", "a", "n">> THEN <<"-">> \o body ELSE body)

\* what astype('str') makes of one value
ToStr(V) == StrV(Str(V))

(***************************************************************************)
(* Tables and dicts                                                        *)
(***************************************************************************)

EmptyDict == <<>>

\* pd.Series.unique(): the distinct values, in order of first appearance
RECURSIVE Unique(_)
Unique(vals) ==
  IF vals = <<>> THEN <<>>
  ELSE LET r == Unique(SubSeq(vals, 1, Len(vals) - 1))
           x == vals[Len(vals)]
       IN IF \E i \in 1..Len(r) : r[i] = x THEN r ELSE Append(r, x)

Range(f) == {f[x] : x \in DOMAIN f}

\* col in md_pd.columns
HasColumn(tab, col) == \E i \in 1..Len(tab.columns) : tab.columns[i] = col

\* str(pd_tab[column].dtypes): pandas stores a column of floats as float64 and
\* anything holding a str (or nothing at all) as object
NativeDtype(vals) ==
  IF vals # <<>> /\ \A i \in 1..Len(vals) : vals[i].kind = "float"
  THEN "float64" ELSE "object"

DefaultSampleIDs == <<"#SampleID", "sample_name">>

\* a variant of SampleIDs that ignores the caller's list
SampleIDs_DefaultOnly(ids) == {"#SampleID", "sample_name"}

\* the identifier columns in effect: the caller's list, or the default when the
\* caller's is None or empty
SampleIDs(ids) == IF ids # <<>> THEN Range(ids) ELSE Range(DefaultSampleIDs)

\* a variant of AppendTag that assigns the last tag instead of appending
AppendTag_Overwrite(checks, tag) == [checks EXCEPT ![Len(checks)] = tag]

\* dtypes[column].append(tag)
AppendTag(checks, tag) == Append(checks, tag)

(***************************************************************************)
(* set_column_dtypes                                                       *)
(***************************************************************************)

\* a variant of set_column_dtypes that forgets the 'nan' counter
set_column_dtypes_NoNan(float_to_string) ==
  IF float_to_string.non = 0 THEN "float64"
  ELSE IF float_to_string.flt # 0 THEN "check"
  ELSE "object"

\* float_to_string is [nan, flt, non, lst]: the three counters and the list
set_column_dtypes(float_to_string) ==
  IF float_to_string.non = 0 THEN "float64"
  ELSE IF float_to_string.flt # 0 \/ float_to_string.nan # 0 THEN "check"
  ELSE "object"

(***************************************************************************)
(* get_dtypes_and_unks                                                     *)
(***************************************************************************)

\* re.search(regex_unk, v) for a pattern that is an alternation of literals
ReSearch(regex, v) == \E i \in 1..Len(regex) : Contains(v, regex[i])

Unspecified == <<":", "U", "n", "s", "p", "e", "c", "i", "f", "i", "e", "d">>

\* the longest lowercase form registered as a candidate is one shorter than this
UnkLen == 20

\* a variant of LooksUnk that admits a form of UnkLen characters
LooksUnk_AtMost(v) ==
  /\ Len(v) <= UnkLen
  /\ ~Contains(v, <<"/">>)
  /\ ~Contains(v, <<"-">>)
  /\ Cardinality({i \in 1..Len(v) : IsDigit(v[i])}) = 0

\* the test of line 101 on the lowercase form v
LooksUnk(v) ==
  /\ Len(v) < UnkLen
  /\ ~Contains(v, <<"/">>)
  /\ ~Contains(v, <<"-">>)
  /\ Cardinality({i \in 1..Len(v) : IsDigit(v[i])}) = 0

\* potential_unks.setdefault(v, []).append(column)
SetDefaultAppend(d, v, column) ==
  IF v \in DOMAIN d THEN [d EXCEPT ![v] = Append(@, column)]
  ELSE d @@ (v :> <<column>>)

\* ':Unspecified' not in V raises TypeError when V is no str
RaisesOnIn(V) == V.kind # "str"

\* one pass of the loop over pd_tab[column].unique(); st is
\* [f2s, unks, div, raised]
ScanValue(st, V, column, regex) ==
  LET v == Lower(Str(V))
      hit == ReSearch(regex, v)
  IN IF st.raised THEN st
     ELSE IF hit /\ RaisesOnIn(V) THEN [st EXCEPT !.raised = TRUE]
     ELSE
       LET div == IF hit /\ ~Contains(V.s, Unspecified)
                  THEN st.div \cup {V} ELSE st.div
       IN IF Str(V) = <<"n", "a", "n">>
          THEN [st EXCEPT !.div = div, !.f2s.nan = @ + 1]
          ELSE IF FloatOK(V)
          THEN [st EXCEPT !.div = div, !.f2s.flt = @ + 1]
          ELSE [st EXCEPT !.div = div,
                          !.f2s.non = @ + 1,
                          !.f2s.lst = Append(@, V),
                          !.unks = IF LooksUnk(v)
                                   THEN SetDefaultAppend(@, v, column) ELSE @]

RECURSIVE ScanValues(_, _, _, _, _)
ScanValues(st, uniq, i, column, regex) ==
  IF i > Len(uniq) THEN st
  ELSE ScanValues(ScanValue(st, uniq[i], column, regex), uniq, i + 1, column, regex)

\* one pass of the loop over pd_tab.columns; acc is
\* [dtypes, unks, div, raised]
ScanColumn(acc, pd_tab, column, regex, ids) ==
  LET native == NativeDtype(pd_tab.data[column])
  IN IF acc.raised THEN acc
     ELSE IF column \in SampleIDs(ids)
     THEN [acc EXCEPT !.dtypes = @ @@ (column :> AppendTag(<<native>>, "object"))]
     ELSE
       LET st0 == [f2s |-> [nan |-> 0, flt |-> 0, non |-> 0, lst |-> <<>>],
                   unks |-> acc.unks, div |-> acc.div, raised |-> FALSE]
           st == ScanValues(st0, Unique(pd_tab.data[column]), 1, column, regex)
       IN [dtypes |-> acc.dtypes @@
                      (column :> AppendTag(<<native>>, set_column_dtypes(st.f2s))),
           unks |-> st.unks, div |-> st.div, raised |-> st.raised]

RECURSIVE ScanColumns(_, _, _, _, _)
ScanColumns(acc, pd_tab, i, regex, ids) ==
  IF i > Len(pd_tab.columns) THEN acc
  ELSE ScanColumns(ScanColumn(acc, pd_tab, pd_tab.columns[i], regex, ids),
                   pd_tab, i + 1, regex, ids)

\* the whole function: [dtypes, unks, div, raised]; raised means it returned
\* nothing and the TypeError went to the caller
get_dtypes_and_unks(pd_tab, regex, ids) ==
  ScanColumns([dtypes |-> EmptyDict, unks |-> EmptyDict, div |-> {},
               raised |-> FALSE], pd_tab, 1, regex, ids)


(***************************************************************************)
(* get_certainly_NaNs                                                      *)
(***************************************************************************)

\* 1 if col in unk_samples else 0
Cell(unk_samples, col) ==
  IF \E i \in 1..Len(unk_samples) : unk_samples[i] = col THEN 1 ELSE 0

\* potential_unks_pd.sum(0) for one factor: the sum down the table's columns
RECURSIVE SumCol(_, _, _)
SumCol(unk_samples, columns, i) ==
  IF i > Len(columns) THEN 0
  ELSE Cell(unk_samples, columns[i]) + SumCol(unk_samples, columns, i + 1)

\* a variant of Exceeds that keeps a sum equal to the threshold
Exceeds_OrEqual(n, t) == n >= t

\* sumCols > thresh
Exceeds(n, t) == n > t

\* the returned frame: its index (the table's columns), its columns (the kept
\* factors, in sorted order) and its cells
get_certainly_NaNs(unks, tab, t) ==
  LET keys == Sorted(DOMAIN unks)
      Kept(unk) == Exceeds(SumCol(unks[unk], tab.columns, 1), t)
      kept == SelectSeq(keys, Kept)
  IN [index |-> tab.columns,
      columns |-> kept,
      cells |-> [unk \in Range(kept) |->
                   [col \in Range(tab.columns) |-> Cell(unks[unk], col)]]]

\* no frame yet
NoFrame == [index |-> <<>>, columns |-> <<>>, cells |-> EmptyDict]

(***************************************************************************)
(* get_dtypes_final                                                        *)
(***************************************************************************)

\* a variant of Replace that substitutes nothing
Replace_Nothing(tab, col, mapping) == tab

\* md_pd.replace({col: to_nan}): in column col, a value that is a key of the
\* mapping becomes the mapping's value; a new table is returned
Replace(tab, col, mapping) ==
  [tab EXCEPT !.data[col] =
     [i \in 1..Len(@) |-> IF @[i] \in DOMAIN mapping THEN mapping[@[i]] ELSE @[i]]]

\* a variant of Rescan that stops at the first value that parses
RECURSIVE Rescan_StopsAtFloat(_, _)
Rescan_StopsAtFloat(uniq, i) ==
  IF i > Len(uniq) THEN "float64"
  ELSE IF Str(uniq[i]) = <<"n", "a", "n">> THEN Rescan_StopsAtFloat(uniq, i + 1)
  ELSE IF FloatOK(uniq[i]) THEN "float64"
  ELSE "object"

\* the for / else over md_pd[col].unique(): 'object' at the first value that is
\* neither 'nan' nor a float, 'float64' when the loop ends without a break
RECURSIVE Rescan(_, _)
Rescan(uniq, i) ==
  IF i > Len(uniq) THEN "float64"
  ELSE IF Str(uniq[i]) = <<"n", "a", "n">> THEN Rescan(uniq, i + 1)
  ELSE IF FloatOK(uniq[i]) THEN Rescan(uniq, i + 1)
  ELSE "object"

\* dtypes_final's letter for an appended tag
Letter(tag) == IF tag = "object" THEN "O" ELSE "Q"

\* a variant of NeedsCheck that re-scans the check columns alone
NeedsCheck_OnlyCheck(tag) == tag = "check"

\* the branch of line 187
NeedsCheck(tag) == tag \in {"check", "object"}

\* one pass of the loop over dtypes.items(); acc is [dtypes, final, md, raised].
\* to_nan is a name the module never binds: unless the caller has bound it,
\* line 188 raises NameError
FinalColumn(acc, col, ids, tn) ==
  LET checks == acc.dtypes[col]
      last == checks[Len(checks)]
  IN IF acc.raised THEN acc
     ELSE IF col \in SampleIDs(ids)
     THEN [acc EXCEPT !.dtypes[col] = AppendTag(@, "object"),
                      !.final = @ @@ (col :> "O")]
     ELSE IF NeedsCheck(last)
     THEN IF ~tn.bound THEN [acc EXCEPT !.raised = TRUE]
          ELSE LET md == Replace(acc.md, col, tn.map)
                   tag == Rescan(Unique(md.data[col]), 1)
               IN [dtypes |-> [acc.dtypes EXCEPT ![col] = AppendTag(@, tag)],
                   final |-> acc.final @@ (col :> Letter(tag)),
                   md |-> md, raised |-> FALSE]
     ELSE [acc EXCEPT !.dtypes[col] = AppendTag(@, last),
                      !.final = @ @@ (col :> "Q")]

RECURSIVE FinalColumns(_, _, _, _, _)
FinalColumns(acc, order, i, ids, tn) ==
  IF i > Len(order) THEN acc
  ELSE FinalColumns(FinalColumn(acc, order[i], ids, tn), order, i + 1, ids, tn)

\* the whole function; dtypes is appended to in place, so its appends stay when
\* the function raises. A dict's items come in insertion order, which for
\* dtypes is the order of the scanned table's columns
get_dtypes_final(dt, tab, ids, tn) ==
  FinalColumns([dtypes |-> dt, final |-> EmptyDict, md |-> tab, raised |-> FALSE],
               tab.columns, 1, ids, tn)

(***************************************************************************)
(* rectify_dtypes_in_md                                                    *)
(***************************************************************************)

\* md_pd[col].astype('float64') raises ValueError on a value float() refuses
AstypeFloatOK(vals) == \A i \in 1..Len(vals) : FloatOK(vals[i])

\* one pass of the loop over dtypes_final.items(); acc is [md, raised], raised
\* being "" or the exception's name. The table is changed in place, so the
\* columns coerced before an exception stay coerced
RectifyColumn(acc, col, dtype) ==
  IF acc.raised # "" THEN acc
  ELSE IF HasColumn(acc.md, col)
  THEN IF dtype = "Q"
       THEN IF AstypeFloatOK(acc.md.data[col])
            THEN [acc EXCEPT !.md.data[col] = [i \in 1..Len(@) |-> ToFloat(@[i])]]
            ELSE [acc EXCEPT !.raised = "ValueError"]
       ELSE [acc EXCEPT !.md.data[col] = [i \in 1..Len(@) |-> ToStr(@[i])]]
  ELSE \* md_pd[col] is read before it is assigned: KeyError
       [acc EXCEPT !.raised = "KeyError"]

RECURSIVE RectifyColumns(_, _, _, _)
RectifyColumns(acc, final, order, i) ==
  IF i > Len(order) THEN acc
  ELSE RectifyColumns(RectifyColumn(acc, order[i], final[order[i]]),
                      final, order, i + 1)

\* the whole function; order is the insertion order of dtypes_final
rectify_dtypes_in_md(final, order, tab) ==
  RectifyColumns([md |-> tab, raised |-> ""], final, order, 1)


(***************************************************************************)
(* Inputs                                                                  *)
(***************************************************************************)

\* rows of a table of the run
MaxRows == 2

\* rows of a table given to the scan alone
MaxScanRows == 1

\* thresholds and list lengths given to the confirmer alone
MaxThresh == 2
MaxList == 3

\* thresh=10
DefaultThresh == 10

Cols == <<"sample_name", "age">>

V_552 == FloatV(<<"5", "5", ".", "2">>)
V_unk == StrV(<<"u", "n", "k">>)
V_Unk == StrV(<<"U", "n", "k">>)
V_omni == StrV(<<"O", "m", "n", "i", "v", "o", "r", "e">>)
V_12 == StrV(<<"1", "2">>)
V_NaNstr == StrV(<<"N", "a", "N">>)
V_slash == StrV(<<"n", "/", "a">>)
V_dash == StrV(<<"n", "-", "a">>)
V_digit == StrV(<<"u", "n", "k", "1">>)
V_len19 == StrV(<<"u", "n", "k", "n", "o", "w", "n", " ", "t", "o", " ",
                  "t", "h", "e", " ", "l", "a", "b", "s">>)
V_len20 == StrV(<<"u", "n", "k", "n", "o", "w", "n", " ", "t", "o", " ",
                  "t", "h", "e", " ", "l", "a", "b", "s", "s">>)
V_unspec == StrV(Unspecified)
V_xunspec == StrV(<<"x">> \o Unspecified)

\* the values of a table of the run
PipeVals == {NaN, V_552, V_unk, V_omni, V_12}

\* the values of a table given to the scan alone
ScanVals == {NaN, V_552, V_unk, V_Unk, V_12, V_NaNstr, V_slash, V_dash, V_digit,
             V_len19, V_len20, V_unspec, V_xunspec}

\* every table with the given columns, up to maxRows rows of values of pool
Tables(columns, pool, maxRows) ==
  {[columns |-> columns, data |-> d] :
     d \in UNION {[Range(columns) -> [1..n -> pool]] : n \in 0..maxRows}}

R_unk == <<"u", "n", "k">>
R_nan == <<"n", "a", "n">>
R_unspec == <<"u", "n", "s", "p", "e", "c", "i", "f", "i", "e", "d">>

\* the caller's patterns: unk, unk|nan, unk|unspecified
RegexChoices == {<<R_unk>>, <<R_unk, R_nan>>}
ScanRegexChoices == {<<R_unk>>, <<R_unk, R_nan>>, <<R_unk, R_unspec>>}

\* the caller's sampleID_cols: None (the default applies), one of the table's
\* columns, a name the table does not have
IdChoices == {<<>>, <<"age">>, <<"#SampleID">>}

Unbound == [bound |-> FALSE, map |-> EmptyDict]
Bound(keys) == [bound |-> TRUE, map |-> [k \in keys |-> NaN]]

\* the module's global to_nan: not bound, or bound by the caller to a mapping
\* of factors to numpy.nan
ToNanChoices == {Unbound, Bound({}), Bound({V_unk}), Bound({V_unk, V_omni})}

\* the table without one column
DropColumn(tab, col) ==
  LET Keep(c) == c # col
  IN [columns |-> SelectSeq(tab.columns, Keep),
      data |-> [c \in Range(tab.columns) \ {col} |-> tab.data[c]]]

(***************************************************************************)
(* The run: scan, confirm, finalize, rewrite                               *)
(***************************************************************************)

InitWith(tables, regexes) ==
  /\ pc = "start"
  /\ err = ""
  /\ md_in \in tables
  /\ md_pd = md_in
  /\ regex_unk \in regexes
  /\ sampleID_cols = <<>>
  /\ dtypes = EmptyDict
  /\ potential_unks = EmptyDict
  /\ nan_diversity = {}
  /\ thresh = DefaultThresh
  /\ certainly_NaNs = NoFrame
  /\ to_nan = Unbound
  /\ dtypes_final = EmptyDict

Init == InitWith(Tables(Cols, PipeVals, MaxRows), RegexChoices)

\* dtypes, potential_unks, nan_diversity = get_dtypes_and_unks(md_pd, regex_unk, ids)
Scan ==
  /\ pc = "start"
  /\ \E ids \in IdChoices :
       LET r == get_dtypes_and_unks(md_pd, regex_unk, ids)
       IN /\ sampleID_cols' = ids
          /\ IF r.raised
             THEN /\ pc' = "failed"
                  /\ err' = "TypeError"
                  /\ UNCHANGED <<dtypes, potential_unks, nan_diversity>>
             ELSE /\ pc' = "scanned"
                  /\ err' = ""
                  /\ dtypes' = r.dtypes
                  /\ potential_unks' = r.unks
                  /\ nan_diversity' = r.div
  /\ UNCHANGED <<md_in, md_pd, regex_unk, thresh, certainly_NaNs, to_nan,
                 dtypes_final>>

\* certainly_NaNs = get_certainly_NaNs(potential_unks, md_pd, thresh)
Confirm ==
  /\ pc = "scanned"
  /\ pc' = "confirmed"
  /\ certainly_NaNs' = get_certainly_NaNs(potential_unks, md_pd, thresh)
  /\ UNCHANGED <<err, md_in, md_pd, regex_unk, sampleID_cols, dtypes,
                 potential_unks, nan_diversity, thresh, to_nan, dtypes_final>>

\* dtypes_final, md_pd = get_dtypes_final(dtypes, md_pd, sampleID_cols), with
\* the global to_nan as the caller left it
Finalize ==
  /\ pc = "confirmed"
  /\ \E tn \in ToNanChoices :
       LET r == get_dtypes_final(dtypes, md_pd, sampleID_cols, tn)
       IN /\ to_nan' = tn
          /\ dtypes' = r.dtypes
          /\ IF r.raised
             THEN /\ pc' = "failed"
                  /\ err' = "NameError"
                  /\ UNCHANGED <<md_pd, dtypes_final>>
             ELSE /\ pc' = "finalized"
                  /\ err' = ""
                  /\ md_pd' = r.md
                  /\ dtypes_final' = r.final
  /\ UNCHANGED <<md_in, regex_unk, sampleID_cols, potential_unks, nan_diversity,
                 thresh, certainly_NaNs>>

\* md_pd = rectify_dtypes_in_md(dtypes_final, tab), tab being the table finalize
\* returned or, from a caller that passes another table, that table without one
\* of the columns the map names
Rewrite ==
  /\ pc = "finalized"
  /\ \E drop \in {""} \cup Range(md_pd.columns) :
       LET tab == IF drop = "" THEN md_pd ELSE DropColumn(md_pd, drop)
           r == rectify_dtypes_in_md(dtypes_final, md_in.columns, tab)
       IN /\ md_pd' = r.md
          /\ err' = r.raised
          /\ pc' = IF r.raised = "" THEN "rewritten" ELSE "failed"
  /\ UNCHANGED <<md_in, regex_unk, sampleID_cols, dtypes, potential_unks,
                 nan_diversity, thresh, certainly_NaNs, to_nan, dtypes_final>>

Next == Scan \/ Confirm \/ Finalize \/ Rewrite

Spec == Init /\ [][Next]_vars


(***************************************************************************)
(* The scan alone, on tables of values of every lexical shape              *)
(***************************************************************************)

InitScan == InitWith(Tables(Cols, ScanVals, MaxScanRows), ScanRegexChoices)

NextScan == Scan

SpecScan == InitScan /\ [][NextScan]_vars

(***************************************************************************)
(* The confirmer alone, on any candidate map, table and threshold          *)
(***************************************************************************)

K_missing == <<"m", "i", "s", "s", "i", "n", "g">>

ConfirmFactors == {R_unk, K_missing}

ConfirmNames == <<"age", "diet", "site">>

\* the lists of one to n column names
ColLists(n) == UNION {[1..k -> Range(ConfirmNames)] : k \in 1..n}

\* a table of no rows with the first n of the names as its columns
EmptyTable(n) ==
  [columns |-> SubSeq(ConfirmNames, 1, n),
   data |-> [c \in Range(SubSeq(ConfirmNames, 1, n)) |-> <<>>]]

InitConfirm ==
  /\ pc = "scanned"
  /\ err = ""
  /\ md_in \in {EmptyTable(n) : n \in 0..Len(ConfirmNames)}
  /\ md_pd = md_in
  /\ regex_unk = <<R_unk>>
  /\ sampleID_cols = <<>>
  /\ dtypes = EmptyDict
  /\ potential_unks \in UNION {[S -> ColLists(MaxList)] : S \in SUBSET ConfirmFactors}
  /\ nan_diversity = {}
  /\ thresh \in 0..MaxThresh
  /\ certainly_NaNs = NoFrame
  /\ to_nan = Unbound
  /\ dtypes_final = EmptyDict

NextConfirm == Confirm

SpecConfirm == InitConfirm /\ [][NextConfirm]_vars


(***************************************************************************)
(* Properties                                                              *)
(***************************************************************************)

\* the words the properties are stated in
TableCols == Range(md_in.columns)
IdCols == IF sampleID_cols = <<>> THEN {"#SampleID", "sample_name"}
          ELSE Range(sampleID_cols)
Distinct(c) == Range(md_in.data[c])
IsMissing(V) == Str(V) = <<"n", "a", "n">>
NonFloats(c) == {V \in Distinct(c) : ~IsMissing(V) /\ ~FloatOK(V)}
Floats(c) == {V \in Distinct(c) : ~IsMissing(V) /\ FloatOK(V)}
Missings(c) == {V \in Distinct(c) : IsMissing(V)}
Preliminary(c) == dtypes[c][2]
Substituted(V) == IF V \in DOMAIN to_nan.map THEN to_nan.map[V] ELSE V
ScanRan == pc # "start"
FinalizeReturned == pc \in {"finalized", "rewritten"}
                      \/ (pc = "failed" /\ err \in {"KeyError", "ValueError"})
RewriteRan == pc = "rewritten"
                \/ (pc = "failed" /\ err \in {"KeyError", "ValueError"})

\* C1: once the scan has returned, every non-identifier column has exactly one
\* preliminary tag after its native label, and the tag is float64 when no
\* distinct value is a non-float, check when some distinct value is a non-float
\* and some is a float or missing, object when some distinct value is a
\* non-float and none is a float or missing.
C1_PreliminaryTag ==
  pc = "scanned" =>
    \A c \in TableCols \ IdCols :
      /\ c \in DOMAIN dtypes
      /\ Len(dtypes[c]) = 2
      /\ Preliminary(c) =
           (IF NonFloats(c) = {} THEN "float64"
            ELSE IF Floats(c) # {} \/ Missings(c) # {} THEN "check"
            ELSE "object")

\* a scanned column holding a missing value and a non-float, and no float, is
\* tagged check, beside a column of missing values alone tagged float64
C1_Witness ==
  /\ pc = "scanned"
  /\ \E c \in TableCols \ IdCols :
       /\ Missings(c) # {} /\ NonFloats(c) # {} /\ Floats(c) = {}
       /\ Preliminary(c) = "check"
  /\ \E c \in TableCols \ IdCols :
       /\ Missings(c) # {} /\ NonFloats(c) = {} /\ Floats(c) = {}
       /\ Preliminary(c) = "float64"

\* the number of distinct table columns listed for a factor
ListedColumns(f) ==
  Cardinality({c \in Range(md_pd.columns) : c \in Range(potential_unks[f])})

AllNumericAfterSubstitution(c) ==
  \A V \in Distinct(c) : IsMissing(Substituted(V)) \/ FloatOK(Substituted(V))

\* C3: once finalize has returned, the finalized map has exactly the table's
\* columns as keys, each with 'O' or 'Q'; a non-identifier column tagged check or
\* object is 'Q' exactly when every substituted distinct value is missing or a
\* float; a non-identifier column tagged float64 is 'Q' and keeps its values.
C3_FinalizedMap ==
  pc = "finalized" =>
    /\ DOMAIN dtypes_final = TableCols
    /\ \A c \in TableCols :
         /\ dtypes_final[c] \in {"O", "Q"}
         /\ (c \notin IdCols /\ Preliminary(c) \in {"check", "object"}) =>
              (dtypes_final[c] = "Q" <=> AllNumericAfterSubstitution(c))
         /\ (c \notin IdCols /\ Preliminary(c) = "float64") =>
              (dtypes_final[c] = "Q" /\ md_pd.data[c] = md_in.data[c])

\* the column [55.2, "unk"] is tagged check and finalized 'Q' with "unk"
\* substituted
C3_Witness ==
  /\ pc = "finalized"
  /\ V_unk \in DOMAIN to_nan.map
  /\ \E c \in TableCols \ IdCols :
       /\ md_in.data[c] = <<V_552, V_unk>>
       /\ Preliminary(c) = "check"
       /\ dtypes_final[c] = "Q"

\* a column that has values, all of them non-floats and none missing
AllText(c) == Distinct(c) # {} /\ Distinct(c) = NonFloats(c)

\* C4 as stated: a column of non-floats alone is tagged object by the scan and
\* 'O' by finalize, whatever the substitution.
C4_AlwaysTextual ==
  pc = "finalized" =>
    \A c \in TableCols :
      AllText(c) => (Preliminary(c) = "object" /\ dtypes_final[c] = "O")

\* C4 as amended: a column of non-floats alone is tagged object by the scan, and
\* finalize gives it 'O' exactly when it is an identifier column or some
\* distinct value, once substituted, is neither missing nor a float; when the
\* substitution maps every value to the missing marker it is 'Q'.
C4_TextualUnlessSubstituted ==
  pc = "finalized" =>
    \A c \in TableCols :
      AllText(c) =>
        /\ Preliminary(c) = "object"
        /\ dtypes_final[c] = "O" <=>
             (c \in IdCols \/ ~AllNumericAfterSubstitution(c))

\* a column of two texts, both substituted, is finalized 'Q'
C4_Witness ==
  /\ pc = "finalized"
  /\ \E c \in TableCols \ IdCols :
       /\ AllText(c)
       /\ Cardinality(Distinct(c)) = 2
       /\ Distinct(c) \subseteq DOMAIN to_nan.map
       /\ Preliminary(c) = "object"
       /\ dtypes_final[c] = "Q"


\* whether the candidate map lists column c for the lowercase string v
Associated(v, c) ==
  v \in DOMAIN potential_unks /\ c \in Range(potential_unks[v])

\* whether column c has a distinct value that is a non-float whose lowercase
\* form is v, shorter than 20 characters, without '/', '-' or a digit
HasCandidate(v, c) ==
  \E V \in Distinct(c) :
    /\ ~IsMissing(V) /\ ~FloatOK(V)
    /\ Lower(Str(V)) = v
    /\ Len(v) < 20
    /\ \A i \in 1..Len(v) : v[i] \notin {"/", "-"} /\ ~IsDigit(v[i])

LowerForms == {Lower(Str(V)) : V \in UNION {Distinct(c) : c \in TableCols}}

C7_RewriteNeverFails ==
  RewriteRan =>
    /\ pc = "rewritten"
    /\ \A c \in DOMAIN dtypes_final :
         /\ HasColumn(md_pd, c)
         /\ \A i \in 1..Len(md_pd.data[c]) :
              md_pd.data[c][i].kind = (IF dtypes_final[c] = "Q" THEN "float" ELSE "str")

\* C8 as stated: the scan completes on every table, and the diagnostic set
\* holds exactly the distinct values of non-identifier columns whose lowercase
\* form the pattern matches, the literal ":Unspecified" excepted.
C8_DiagnosticSet ==
  ScanRan =>
    /\ pc = "scanned"
    /\ nan_diversity =
         {V \in UNION {Distinct(c) : c \in TableCols \ IdCols} :
            ReSearch(regex_unk, Lower(Str(V))) /\ V # V_unspec}

\* every record a step finds is a prefix of the record it leaves
RecordsGrow ==
  \A c \in DOMAIN dtypes :
    /\ c \in DOMAIN dtypes'
    /\ Len(dtypes'[c]) >= Len(dtypes[c])
    /\ SubSeq(dtypes'[c], 1, Len(dtypes[c])) = dtypes[c]

\* a step of confirm or rewrite leaves the records as they are
RecordsKept == pc \in {"scanned", "finalized"} => dtypes' = dtypes

\* the records once finalize has returned
RecordsFinal ==
  FinalizeReturned =>
    /\ DOMAIN dtypes = TableCols
    /\ \A c \in TableCols :
         /\ Len(dtypes[c]) = 3
         /\ dtypes[c][1] = NativeDtype(md_in.data[c])
         /\ dtypes[c][2] \in {"float64", "object", "check"}
         /\ dtypes[c][3] \in {"float64", "object"}
         /\ dtypes[c][3] = "object" <=> dtypes_final[c] = "O"
         /\ dtypes[c][3] = "float64" <=> dtypes_final[c] = "Q"

\* C9: a record only grows by appends; confirm and rewrite leave the records as
\* they are; once finalize has returned every record is the native label, a
\* preliminary tag and a finalized tag that is object for 'O' and float64 for 'Q'.
C9_TagRecords ==
  []RecordsFinal /\ [][RecordsGrow]_vars /\ [][RecordsKept]_vars

\* a run to the end with a record object, check, float64
C9_Witness ==
  /\ pc = "rewritten"
  /\ \E c \in TableCols : dtypes[c] = <<"object", "check", "float64">>
  /\ \E c \in TableCols : dtypes[c] = <<"float64", "object", "object">>

\* C10: in the table finalize returns, every value of a 'Q' column is missing
\* or parses as a float, and the columns that are identifiers or tagged
\* float64 hold what they held; rewrite then never meets a value it cannot
\* convert, and on that table it completes.
C10_QuantitativeColumns ==
  /\ pc = "finalized" =>
       \A c \in TableCols :
         /\ dtypes_final[c] = "Q" =>
              \A i \in 1..Len(md_pd.data[c]) :
                 IsMissing(md_pd.data[c][i]) \/ FloatOK(md_pd.data[c][i])
         /\ (c \in IdCols \/ Preliminary(c) = "float64") =>
              md_pd.data[c] = md_in.data[c]
         /\ \A i \in 1..Len(md_pd.data[c]) :
              md_pd.data[c][i] # md_in.data[c][i] =>
                /\ c \notin IdCols
                /\ Preliminary(c) \in {"check", "object"}
                /\ md_in.data[c][i] \in DOMAIN to_nan.map
  /\ err # "ValueError"
  /\ (pc = "failed" /\ err = "KeyError") =>
       \E c \in DOMAIN dtypes_final : ~HasColumn(md_pd, c)

\* the column ["unk", "12"] with "unk" substituted is 'Q' and rewritten to
\* [nan, 12.0]
C10_Witness ==
  /\ pc = "rewritten"
  /\ \E c \in TableCols :
       /\ md_in.data[c] = <<V_unk, V_12>>
       /\ dtypes_final[c] = "Q"
       /\ md_pd.data[c] = <<NaN, FloatV(<<"1", "2", ".", "0">>)>>


====
